---- MODULE Spec2Model ----
(***************************************************************************)
(* Model of the OpenGL backend's adapter layer (src/backend/gl/src/lib.rs): *)
(* the thread-confined handles Starc / Wstarc, the shared context Share    *)
(* with its single-open flag and memory-type table, PhysicalDevice::open.  *)
(***************************************************************************)
EXTENDS Bags, FiniteSets, Integers, Sequences, TLC

(* ---------------------------- bounds ----------------------------------- *)
\* number of threads that may hold or use a handle
NumThreads == 2
\* number of Starc / Wstarc handles alive at one time
MaxHandles == 3
\* number of flat slots a remap table hands out per kind, and records in all
MaxSlots == 3
\* number of DescriptorSet values alive at one time
MaxSets == 2
\* number of resolved bindings written to one descriptor set
MaxBindings == 2

Threads == 1 .. NumThreads

(* ------------------------- program constants --------------------------- *)
DEVICE_LOCAL_HEAP == 0
CPU_VISIBLE_HEAP == 1

\* hal::buffer::Usage::all()
UsageAll ==
  {"TRANSFER_SRC", "TRANSFER_DST", "UNIFORM_TEXEL", "STORAGE_TEXEL",
   "UNIFORM", "STORAGE", "INDEX", "VERTEX", "INDIRECT"}

\* enum MemoryUsage
MemoryUsage_Buffer(usage) == [kind |-> "Buffer", usage |-> usage]
MemoryUsage_Image == [kind |-> "Image", usage |-> {}]

\* hal::MemoryType
MemoryType(properties, heap_index) ==
  [properties |-> properties, heap_index |-> heap_index]

(* --------------------- memory-type table (new_adapter) ----------------- *)
\* the flags of hal::buffer::Usage in declaration order
UsageFlags ==
  <<"TRANSFER_SRC", "TRANSFER_DST", "UNIFORM_TEXEL", "STORAGE_TEXEL",
    "UNIFORM", "STORAGE", "INDEX", "VERTEX", "INDIRECT">>

\* an add_memory_type that pushes one entry per pair of usage flags
add_memory_type_per_pair(memory_types, private_caps, memory_type) ==
  memory_types \o
    [i \in 1 .. Len(UsageFlags) * Len(UsageFlags) |->
       <<memory_type,
         MemoryUsage_Buffer({UsageFlags[((i - 1) \div Len(UsageFlags)) + 1],
                             UsageFlags[((i - 1) % Len(UsageFlags)) + 1]})>>]

\* an add_memory_type that never splits off the INDEX usage
add_memory_type_unsplit(memory_types, private_caps, memory_type) ==
  Append(memory_types, <<memory_type, MemoryUsage_Buffer(UsageAll)>>)

\* an add_memory_type that splits off INDEX for device-local memory only
add_memory_type_split_device_local(memory_types, private_caps, memory_type) ==
  IF private_caps.index_buffer_role_change \/ "CPU_VISIBLE" \in memory_type.properties
    THEN Append(memory_types, <<memory_type, MemoryUsage_Buffer(UsageAll)>>)
    ELSE Append(Append(memory_types,
                  <<memory_type, MemoryUsage_Buffer({"INDEX"})>>),
                <<memory_type, MemoryUsage_Buffer(UsageAll \ {"INDEX"})>>)

\* the closure add_memory_type: pushes one or two buffer entries
add_memory_type(memory_types, private_caps, memory_type) ==
  IF private_caps.index_buffer_role_change
    THEN Append(memory_types, <<memory_type, MemoryUsage_Buffer(UsageAll)>>)
    ELSE Append(Append(memory_types,
                  <<memory_type, MemoryUsage_Buffer({"INDEX"})>>),
                <<memory_type, MemoryUsage_Buffer(UsageAll \ {"INDEX"})>>)

\* a table with the cached host-visible type pushed before the coherent ones
build_memory_types_cached_first(private_caps) ==
  LET t0 == << >>
      t1 == IF private_caps.map \/ private_caps.emulate_map
              THEN add_memory_type(t0, private_caps,
                     MemoryType({"CPU_VISIBLE", "CPU_CACHED"}, CPU_VISIBLE_HEAP))
              ELSE t0
      t2 == IF private_caps.map /\ private_caps.buffer_storage
              THEN add_memory_type(
                     add_memory_type(t1, private_caps,
                       MemoryType({"CPU_VISIBLE", "CPU_CACHED", "COHERENT"},
                                  CPU_VISIBLE_HEAP)),
                     private_caps,
                     MemoryType({"CPU_VISIBLE", "COHERENT"}, CPU_VISIBLE_HEAP))
              ELSE t1
      t3 == add_memory_type(t2, private_caps,
              MemoryType({"DEVICE_LOCAL"}, DEVICE_LOCAL_HEAP))
  IN  Append(t3, <<MemoryType({"DEVICE_LOCAL"}, DEVICE_LOCAL_HEAP),
                   MemoryUsage_Image>>)

\* a table without the image memory type
build_memory_types_no_image(private_caps) ==
  LET t0 == << >>
      t1 == IF private_caps.map /\ private_caps.buffer_storage
              THEN add_memory_type(
                     add_memory_type(t0, private_caps,
                       MemoryType({"CPU_VISIBLE", "CPU_CACHED", "COHERENT"},
                                  CPU_VISIBLE_HEAP)),
                     private_caps,
                     MemoryType({"CPU_VISIBLE", "COHERENT"}, CPU_VISIBLE_HEAP))
              ELSE t0
      t2 == IF private_caps.map \/ private_caps.emulate_map
              THEN add_memory_type(t1, private_caps,
                     MemoryType({"CPU_VISIBLE", "CPU_CACHED"}, CPU_VISIBLE_HEAP))
              ELSE t1
  IN  add_memory_type(t2, private_caps,
        MemoryType({"DEVICE_LOCAL"}, DEVICE_LOCAL_HEAP))

\* the table new_adapter builds from the private capabilities
build_memory_types(private_caps) ==
  LET t0 == << >>
      t1 == IF private_caps.map /\ private_caps.buffer_storage
              THEN add_memory_type(
                     add_memory_type(t0, private_caps,
                       MemoryType({"CPU_VISIBLE", "CPU_CACHED", "COHERENT"},
                                  CPU_VISIBLE_HEAP)),
                     private_caps,
                     MemoryType({"CPU_VISIBLE", "COHERENT"}, CPU_VISIBLE_HEAP))
              ELSE t0
      t2 == IF private_caps.map \/ private_caps.emulate_map
              THEN add_memory_type(t1, private_caps,
                     MemoryType({"CPU_VISIBLE", "CPU_CACHED"}, CPU_VISIBLE_HEAP))
              ELSE t1
      t3 == add_memory_type(t2, private_caps,
              MemoryType({"DEVICE_LOCAL"}, DEVICE_LOCAL_HEAP))
  IN  Append(t3, <<MemoryType({"DEVICE_LOCAL"}, DEVICE_LOCAL_HEAP),
                   MemoryUsage_Image>>)

(* ------------------------ adapter configurations ----------------------- *)
\* hal::Features bits used by the requests of this model
Features == {"SAMPLER_ANISOTROPY"}

\* the fields of info::PrivateCaps that new_adapter and open read
PrivateCaps(map, buffer_storage, emulate_map, role_change, vertex_array) ==
  [map |-> map, buffer_storage |-> buffer_storage,
   emulate_map |-> emulate_map,
   index_buffer_role_change |-> role_change,
   vertex_array |-> vertex_array]

\* what info::query_all reports for the contexts of this model:
\* (features, legacy SRGB_COLOR, private capabilities)
QueryResults ==
  { [features |-> {"SAMPLER_ANISOTROPY"}, srgb_color |-> TRUE,
     private_caps |-> PrivateCaps(TRUE, TRUE, FALSE, TRUE, TRUE)],
    [features |-> {}, srgb_color |-> FALSE,
     private_caps |-> PrivateCaps(FALSE, FALSE, FALSE, FALSE, FALSE)] }

(* ------------------------------ state ---------------------------------- *)
VARIABLES
  debug_assertions, \* cfg!(debug_assertions) of the build
  share,            \* the Share value the adapter was built with
  place,            \* where the Share value is: "arc" | "unwrapped" | "dropped"
  owner,            \* the thread that ran Starc::new
  strong,           \* strong count inside the Arc
  weak,             \* number of Weak pointers of the Arc
  handles,          \* bag of the Starc / Wstarc values alive
  context,          \* GL calls issued on the context after construction
  gpus,             \* number of hal::Gpu values open has returned
  last              \* the last operation and its outcome

vars == <<debug_assertions, share, place, owner, strong, weak, handles,
          context, gpus, last>>

\* the memory-type table of one adapter and the mask queries made on it
VARIABLES
  private_caps,     \* the info::PrivateCaps the table was built from
  memory_types,     \* Share::memory_types
  fits,             \* the outcome of assert!(memory_types.len() <= 64)
  query             \* the last mask query and its result

memvars == <<private_caps, memory_types, fits, query>>

\* the memory-type variables of a behaviour that makes no mask query
MemIdle ==
  /\ private_caps = PrivateCaps(FALSE, FALSE, FALSE, FALSE, FALSE)
  /\ memory_types = << >>
  /\ fits = TRUE
  /\ query = [fn |-> "none"]

\* one DescRemapData table and the calls made on it
VARIABLES
  bindings,         \* DescRemapData::bindings: key -> Vec of flat slots
  next_binding,     \* DescRemapData::next_binding: kind -> next free slot
  issued,           \* history: per kind, the slots the table handed out, in call order
  recorded,         \* history: per key, the slots insert calls were given, in call order
  fresh,            \* history: every caller-supplied slot so far was reserved and unrecorded
  rlast             \* the last call on the table and what it returned

remapvars == <<bindings, next_binding, issued, recorded, fresh, rlast>>

\* one Buffer, one DescriptorPool and the descriptor sets it handed out
VARIABLES
  buffer,           \* the native::Buffer value
  pool,             \* the native::DescriptorPool value
  sets,             \* the DescriptorSet values alive, in order of creation
  arcs,             \* the Arc<Mutex<Vec<DescSetBindings>>> allocations alive
  nlast             \* the last call and what it returned

nativevars == <<buffer, pool, sets, arcs, nlast>>

BindingTypes == {"Images", "UniformBuffers"}

\* the (kind, set, binding) keys the calls are made with
Keys ==
  { <<"Images", 0, 0>>, <<"Images", 0, 1>>, <<"Images", 1, 0>>,
    <<"UniformBuffers", 0, 0>> }

\* DescRemapData::new(): empty maps (names is never written in this file)
DescRemapData_new ==
  /\ bindings = << >>
  /\ next_binding = << >>

\* the remap variables of a table no call was made on
RemapIdle ==
  /\ DescRemapData_new
  /\ issued = [k \in BindingTypes |-> << >>]
  /\ recorded = [k \in Keys |-> << >>]
  /\ fresh = TRUE
  /\ rlast = [op |-> "none"]

\* the places an Arc of a descriptor set's bindings can be allocated at
ArcIds == 1 .. MaxSets

\* a place no Arc is allocated at
NoArc == [strong |-> 0, value |-> << >>]

\* DescriptorPool {}: a value without fields
DescriptorPool == << >>

\* the buffer and pool variables of a behaviour that uses neither
NativeIdle ==
  /\ buffer = [state |-> "none"]
  /\ pool = DescriptorPool
  /\ sets = << >>
  /\ arcs = [a \in ArcIds |-> NoArc]
  /\ nlast = [op |-> "none"]

\* the open calls in progress, one per thread at most
VARIABLES
  in_open,          \* per thread: where its open call stands, and its arguments
  observed          \* history: number of open calls that read open == false

racevars == <<in_open, observed>>

\* the call variables of a behaviour whose open calls run in one step
RaceIdle ==
  /\ in_open = [t \in Threads |-> [at |-> "idle"]]
  /\ observed = 0

\* the strings the context reports and the adapter info built from them
VARIABLES
  platform_name,    \* info.platform_name: vendor and renderer
  adapter_info      \* the hal::AdapterInfo of the adapter, once built

infovars == <<platform_name, adapter_info>>

\* the info variables of a behaviour that does not look at the adapter info
InfoIdle ==
  /\ platform_name = [vendor |-> "", renderer |-> ""]
  /\ adapter_info = [name |-> "", built |-> FALSE]

InfoStay == UNCHANGED infovars
MemStay == UNCHANGED memvars
RemapStay == UNCHANGED remapvars
NativeStay == UNCHANGED nativevars
RaceStay == UNCHANGED racevars

\* the variables the handle operations leave alone
OthersStay == MemStay /\ RemapStay /\ NativeStay /\ RaceStay /\ InfoStay

\* struct Starc { arc, thread } / struct Wstarc { weak, thread } of the one
\* Arc of the model; via records how the value was made
Starc(thread, via) == [kind |-> "Starc", thread |-> thread, via |-> via]
Wstarc(thread, via) == [kind |-> "Wstarc", thread |-> thread, via |-> via]

Starcs == {h \in DOMAIN handles : h.kind = "Starc"}
Wstarcs == {h \in DOMAIN handles : h.kind = "Wstarc"}

\* number of handles of a set of handle values, copies counted
Count(S) == BagCardinality([h \in S |-> handles[h]])
NumHandles == BagCardinality(handles)

Put(h) == SetToBag({h})

\* op was run on thread t with result res; via: how the handle that deref
\* was run on, or that the operation produced, was made ("any": not recorded)
Outcome(op, t, res, via) ==
  [op |-> op, t |-> t, res |-> res, via |-> via, good |-> FALSE]

(* ------------------------- Starc / Wstarc ------------------------------ *)
\* Starc::new: the handle of a fresh Arc, tagged with the calling thread
Starc_new(t) == Starc(t, "new")

\* a clone that tags the handle with the thread that clones
clone_thread_current(h, t) == t

\* the thread field of a clone: thread: self.thread
clone_thread(h, t) == h.thread

\* impl Clone for Starc: a new Arc reference, the stored thread copied
clone(h, t) ==
  /\ h \in Starcs
  /\ NumHandles < MaxHandles
  /\ handles' = handles (+) Put(Starc(clone_thread(h, t), "clone"))
  /\ strong' = strong + 1
  /\ last' = Outcome("clone", t, "ok", "clone")
  /\ UNCHANGED <<debug_assertions, share, place, owner, weak, context, gpus>>

\* dropping a Starc drops its Arc; the last one drops the value
drop(h, t) ==
  /\ h \in Starcs
  /\ h.via \notin {"device", "queue"}
  /\ handles' = handles (-) Put(h)
  /\ strong' = strong - 1
  /\ place' = IF strong = 1 THEN "dropped" ELSE place
  /\ last' = Outcome("drop", t, "ok", "any")
  /\ UNCHANGED <<debug_assertions, share, owner, weak, context, gpus>>

\* a Deref without the thread assertion
deref_ok_unchecked(h, t) == TRUE

\* the assertion of deref: assert_eq!(thread::current().id(), self.thread)
deref_ok(h, t) == t = h.thread

\* impl Deref for Starc: a reference to the value, or a panic
deref(h, t) ==
  /\ h \in Starcs
  /\ last' = Outcome("deref", t, IF deref_ok(h, t) THEN "ok" ELSE "panic", h.via)
  /\ UNCHANGED <<debug_assertions, share, place, owner, strong, weak,
                 handles, context, gpus>>

\* an Err handle tagged with the thread that called try_unwrap
try_unwrap_thread_current(h, t) == t

\* the thread of the handle try_unwrap gives back: let thread = self.thread
try_unwrap_thread(h, t) == h.thread

\* Starc::try_unwrap: Arc::try_unwrap gives the value iff strong == 1,
\* otherwise the Arc comes back and is wrapped with the saved thread
try_unwrap(h, t) ==
  /\ h \in Starcs
  /\ IF strong = 1
       THEN /\ handles' = handles (-) Put(h)
            /\ strong' = 0
            /\ place' = "unwrapped"
            /\ last' = Outcome("try_unwrap", t, "Ok", "any")
       ELSE /\ handles' = (handles (-) Put(h))
                            (+) Put(Starc(try_unwrap_thread(h, t), h.via))
            /\ last' = Outcome("try_unwrap", t, "Err", "any")
            /\ UNCHANGED <<strong, place>>
  /\ UNCHANGED <<debug_assertions, share, owner, weak, context, gpus>>

\* a downgrade that keeps a strong reference of the Arc instead of a Weak
downgrade_strong(h, t) ==
  /\ h \in Starcs
  /\ NumHandles < MaxHandles
  /\ handles' = handles (+) Put(Wstarc(h.thread, "downgrade"))
  /\ strong' = strong + 1
  /\ last' = Outcome("downgrade", t, "ok", "downgrade")
  /\ UNCHANGED <<debug_assertions, share, place, owner, weak, context, gpus>>

\* Starc::downgrade: a Weak of the same Arc, the stored thread copied
downgrade(h, t) ==
  /\ h \in Starcs
  /\ NumHandles < MaxHandles
  /\ handles' = handles (+) Put(Wstarc(h.thread, "downgrade"))
  /\ weak' = weak + 1
  /\ last' = Outcome("downgrade", t, "ok", "downgrade")
  /\ UNCHANGED <<debug_assertions, share, place, owner, strong, context, gpus>>

\* Starc::get_mut: Arc::get_mut gives &mut T iff no other Arc or Weak exists
get_mut(h, t) ==
  /\ h \in Starcs
  /\ last' = Outcome("get_mut", t,
                     IF strong = 1 /\ weak = 0 THEN "Some" ELSE "None", "any")
  /\ UNCHANGED <<debug_assertions, share, place, owner, strong, weak,
                 handles, context, gpus>>

\* an upgrade that tags the new handle with the thread that upgrades
upgrade_thread_current(w, t) == t

\* the thread of an upgraded handle: let thread = self.thread
upgrade_thread(w, t) == w.thread

\* Wstarc::upgrade: Weak::upgrade gives an Arc iff strong > 0; it is wrapped
\* with the thread stored in the Wstarc
upgrade(w, t) ==
  /\ w \in Wstarcs
  /\ IF strong > 0
       THEN /\ NumHandles < MaxHandles
            /\ handles' = handles (+) Put(Starc(upgrade_thread(w, t), "upgrade"))
            /\ strong' = strong + 1
            /\ last' = Outcome("upgrade", t, "Some", "upgrade")
       ELSE /\ last' = Outcome("upgrade", t, "None", "upgrade")
            /\ UNCHANGED <<handles, strong>>
  /\ UNCHANGED <<debug_assertions, share, place, owner, weak, context, gpus>>

\* dropping a Wstarc drops its Weak
drop_weak(w, t) ==
  /\ w \in Wstarcs
  /\ handles' = handles (-) Put(w)
  /\ weak' = weak - 1
  /\ last' = Outcome("drop_weak", t, "ok", "any")
  /\ UNCHANGED <<debug_assertions, share, place, owner, strong, context, gpus>>

(* --------------------------- PhysicalDevice ---------------------------- *)
\* Share::check: Err iff the build has debug assertions and the context's
\* error flag is set
check(gl_error) == IF debug_assertions /\ gl_error THEN "Err" ELSE "Ok"

\* a Share constructed with the open flag already set
new_adapter_opened(q) ==
  [features |-> q.features,
   srgb_color |-> q.srgb_color,
   private_caps |-> q.private_caps,
   open |-> TRUE,
   memory_types |-> build_memory_types(q.private_caps)]

\* the Share that PhysicalDevice::new_adapter builds for a context for which
\* info::query_all reports q
new_adapter(q) ==
  [features |-> q.features,
   srgb_color |-> q.srgb_color,
   private_caps |-> q.private_caps,
   open |-> FALSE,
   memory_types |-> build_memory_types(q.private_caps)]

\* the state after new_adapter has run on some thread
Init ==
  /\ debug_assertions \in BOOLEAN
  /\ \E q \in QueryResults :
       /\ Len(build_memory_types(q.private_caps)) <= 64
       /\ share = new_adapter(q)
  /\ place = "arc"
  /\ \E t \in Threads :
       /\ owner = t
       /\ handles = Put(Starc_new(t))
       /\ last = Outcome("new_adapter", t, "ok", "new")
  /\ strong = 1
  /\ weak = 0
  /\ context = << >>
  /\ gpus = 0
  /\ MemIdle
  /\ RemapIdle
  /\ NativeIdle
  /\ RaceIdle
  /\ InfoIdle

\* the calls open issues on the context to initialize the permanent states
open_calls ==
  (IF share.srgb_color THEN <<"enable">> ELSE << >>)
    \o <<"pixel_store_i32">>
    \o (IF share.private_caps.vertex_array
          THEN <<"create_vertex_array", "bind_vertex_array">> ELSE << >>)
    \o (IF debug_assertions THEN <<"get_error">> ELSE << >>)

\* the open calls of this model: the queue families (each given by its number
\* of priorities), the requested features, and whether the context's error
\* flag is set when check reads it
OpenRequests ==
  { [families |-> <<1>>, features |-> {}, gl_error |-> FALSE],
    [families |-> << >>, features |-> {}, gl_error |-> FALSE],
    [families |-> <<1>>, features |-> {"SAMPLER_ANISOTROPY"}, gl_error |-> FALSE],
    [families |-> <<2>>, features |-> {}, gl_error |-> FALSE],
    [families |-> <<1>>, features |-> {}, gl_error |-> TRUE] }

\* the handles of the hal::Gpu open returns: the Device's and one per queue
GpuHandles(thread, families) ==
  Put(Starc(thread, "device"))
    (+) [x \in {y \in {Starc(thread, "queue")} : Len(families) > 0}
           |-> Len(families)]

\* an open that never finds a device open
already_open_never == FALSE

\* the test of open: if self.0.open.get()
already_open == share.open

\* an open that forgets to raise the flag
set_open_forgotten == share

\* self.0.open.set(true)
set_open == [share EXCEPT !.open = TRUE]

\* a request open can serve: features advertised, one priority per family,
\* no error reported by check
GoodRequest(families, requested_features, gl_error) ==
  /\ requested_features \subseteq share.features
  /\ \A i \in 1 .. Len(families) : families[i] = 1
  /\ check(gl_error) = "Ok"

\* PhysicalDevice::open through the handle h on thread t
open(h, t, families, requested_features, gl_error) ==
  /\ h \in Starcs
  /\ IF ~deref_ok(h, t)
       THEN \* self.0 dereferenced on a foreign thread
            /\ last' = [Outcome("open", t, "panic", "any") EXCEPT
                       !.good = GoodRequest(families, requested_features, gl_error)]
            /\ UNCHANGED <<share, handles, strong, context, gpus>>
     ELSE IF already_open
       THEN /\ last' = [Outcome("open", t, "TooManyObjects", "any") EXCEPT
                       !.good = GoodRequest(families, requested_features, gl_error)]
            /\ UNCHANGED <<share, handles, strong, context, gpus>>
     ELSE IF ~(requested_features \subseteq share.features)
       THEN /\ share' = set_open
            /\ last' = [Outcome("open", t, "MissingFeature", "any") EXCEPT
                       !.good = GoodRequest(families, requested_features, gl_error)]
            /\ UNCHANGED <<handles, strong, context, gpus>>
     ELSE IF check(gl_error) = "Err"
               \/ \E i \in 1 .. Len(families) : families[i] # 1
       THEN \* "Error opening adapter" or assert_eq!(priorities.len(), 1)
            /\ share' = set_open
            /\ context' = context \o open_calls
            /\ last' = [Outcome("open", t, "panic", "any") EXCEPT
                       !.good = GoodRequest(families, requested_features, gl_error)]
            /\ UNCHANGED <<handles, strong, gpus>>
     ELSE /\ NumHandles + 1 + Len(families) <= MaxHandles
          /\ share' = set_open
          /\ context' = context \o open_calls
          /\ handles' = handles (+) GpuHandles(h.thread, families)
          /\ strong' = strong + 1 + Len(families)
          /\ gpus' = gpus + 1
          /\ last' = [Outcome("open", t, "Ok", "any") EXCEPT
                       !.good = GoodRequest(families, requested_features, gl_error)]
  /\ UNCHANGED <<debug_assertions, place, owner, weak>>

\* dropping the Device or a CommandQueue of a Gpu releases its handle
drop_gpu_part(h, t) ==
  /\ h \in Starcs
  /\ h.via \in {"device", "queue"}
  /\ handles' = handles (-) Put(h)
  /\ strong' = strong - 1
  /\ place' = IF strong = 1 THEN "dropped" ELSE place
  /\ last' = Outcome("drop_gpu_part", t, "ok", "any")
  /\ UNCHANGED <<debug_assertions, share, owner, weak, context, gpus>>

Next ==
  \/ \E h \in DOMAIN handles, t \in Threads : clone(h, t) /\ OthersStay
  \/ \E h \in DOMAIN handles, t \in Threads : drop(h, t) /\ OthersStay
  \/ \E h \in DOMAIN handles, t \in Threads : deref(h, t) /\ OthersStay
  \/ \E h \in DOMAIN handles, t \in Threads : try_unwrap(h, t) /\ OthersStay
  \/ \E h \in DOMAIN handles, t \in Threads : downgrade(h, t) /\ OthersStay
  \/ \E h \in DOMAIN handles, t \in Threads : get_mut(h, t) /\ OthersStay
  \/ \E h \in DOMAIN handles, t \in Threads : upgrade(h, t) /\ OthersStay
  \/ \E h \in DOMAIN handles, t \in Threads : drop_weak(h, t) /\ OthersStay
  \/ \E h \in DOMAIN handles, t \in Threads, q \in OpenRequests :
        open(h, t, q.families, q.features, q.gl_error) /\ OthersStay
  \/ \E h \in DOMAIN handles, t \in Threads : drop_gpu_part(h, t) /\ OthersStay

Spec == Init /\ [][Next]_<<vars, memvars, remapvars, nativevars, racevars, infovars>>

\* the Arc's counts are the numbers of handles alive
CountsOK ==
  /\ strong = Count(Starcs)
  /\ weak = Count(Wstarcs)

(* ------------------------------ claims --------------------------------- *)
OpenReturns == {"Ok", "MissingFeature", "TooManyObjects"}

\* C1: the first open call on a shared context, made on the owning thread
\* with a request the adapter can serve, returns a Gpu; once open has returned
\* a Gpu, every later open call made on the owning thread returns
\* TooManyObjects; and an open call that returns TooManyObjects leaves the
\* Share (open flag, features, memory types), the handles and the context's
\* call log as they were.
C1_SecondOpenRejected ==
  [][ /\ (last'.op = "open" /\ ~share.open /\ last'.t = owner /\ last'.good)
           => last'.res = "Ok"
      /\ (last'.op = "open" /\ gpus >= 1 /\ last'.t = owner)
           => last'.res = "TooManyObjects"
      /\ (last'.op = "open" /\ last'.res = "TooManyObjects")
           => /\ share' = share
              /\ context' = context
              /\ handles' = handles
              /\ gpus' = gpus ]_vars

\* a second open, rejected while the first Gpu's device is still alive
C1_Witness ==
  /\ last.op = "open" /\ last.res = "TooManyObjects" /\ last.good
  /\ gpus = 1
  /\ \E h \in Starcs : h.via = "device"

\* C2: an open call that directly follows one that returned MissingFeature,
\* runs on the owning thread and makes a request the adapter can serve,
\* returns a Gpu.
C2_MissingFeatureRecoverable ==
  [][ (/\ last.op = "open" /\ last.res = "MissingFeature"
       /\ last'.op = "open" /\ last'.t = owner /\ last'.good)
        => last'.res = "Ok" ]_vars

\* C3: an open call that returns (a Gpu or an error) turns the open flag from
\* false to true only if it returns a Gpu.
C3_OpenFlagOnlyOnSuccess ==
  [][ (last'.op = "open" /\ last'.res \in OpenReturns /\ ~share.open /\ share'.open)
        => last'.res = "Ok" ]_vars

C6_ThreadConfinement ==
  /\ \A h \in Starcs : h.via \in {"new", "clone"} => h.thread = owner
  /\ last.op = "deref" => (last.res = "ok" <=> last.t = owner)
  /\ last.op = "deref" => last.res \in {"ok", "panic"}

\* a clone dereferenced on a foreign thread while other references exist
C6_Witness ==
  /\ last.op = "deref" /\ last.via = "clone"
  /\ last.t # owner /\ last.res = "panic"
  /\ strong >= 2

\* C7: an operation of Starc that hands out the wrapped value (deref,
\* try_unwrap giving Ok, get_mut giving Some) has run on the owning thread.
C7_AccessOnlyOnOwner ==
  (/\ last.op \in {"deref", "try_unwrap", "get_mut"}
   /\ last.res \in {"ok", "Ok", "Some"})
    => last.t = owner

\* C8: try_unwrap returns the value exactly when the handle is the only Starc
\* alive; otherwise it returns Err and the handles (threads included), the
\* strong count and the value stay as they were.
C8_TryUnwrap ==
  [][ last'.op = "try_unwrap" =>
        IF Count(Starcs) = 1
          THEN /\ last'.res = "Ok"
               /\ place' = "unwrapped"
               /\ \A h \in DOMAIN handles' : h.kind # "Starc"
          ELSE /\ last'.res = "Err"
               /\ handles' = handles
               /\ strong' = strong
               /\ place' = place
               /\ share' = share ]_vars

\* try_unwrap refused on a foreign thread while another reference exists
C8_Witness ==
  /\ last.op = "try_unwrap" /\ last.res = "Err"
  /\ last.t # owner
  /\ Count(Starcs) >= 2

\* C9: upgrade returns Some when a Starc is alive and None when none is,
\* on any thread and however many Wstarc remain; it never panics.
C9_UpgradeWhileAlive ==
  last.op = "upgrade" =>
    \/ last.res = "Some" /\ Count(Starcs) >= 2
    \/ last.res = "None" /\ Count(Starcs) = 0

\* upgrade answering None on a foreign thread with two Wstarc left
C9_Witness ==
  /\ last.op = "upgrade" /\ last.res = "None"
  /\ last.t # owner
  /\ Count(Wstarcs) >= 2

\* C10: every Wstarc, and every Starc made by upgrade on whatever thread, is
\* tagged with the thread of the original Starc, so deref of an upgraded
\* handle succeeds on that thread only.
C10_UpgradeKeepsOwner ==
  /\ \A w \in Wstarcs : w.thread = owner
  /\ \A h \in Starcs : h.via = "upgrade" => h.thread = owner
  /\ (last.op = "deref" /\ last.via = "upgrade")
       => (last.res = "ok" <=> last.t = owner)

\* an upgraded handle dereferenced on a foreign thread
C10_Witness ==
  /\ last.op = "deref" /\ last.via = "upgrade"
  /\ last.t # owner /\ last.res = "panic"

(* ---------------- memory-type table and the type masks ----------------- *)
\* the handle variables of a behaviour without an adapter handle
HandleIdle ==
  /\ debug_assertions = FALSE
  /\ share = [open |-> FALSE]
  /\ place = "none"
  /\ owner = 0
  /\ strong = 0
  /\ weak = 0
  /\ handles = EmptyBag
  /\ context = << >>
  /\ gpus = 0
  /\ last = [op |-> "none"]

HandleStay == UNCHANGED vars

\* every combination of the capability flags the table depends on
AllPrivateCaps ==
  {PrivateCaps(m, bs, em, irc, FALSE) : m \in BOOLEAN, bs \in BOOLEAN, em \in BOOLEAN, irc \in BOOLEAN}

\* assert!(memory_types.len() <= 64)
table_fits(table) == Len(table) <= 64

\* the state after new_adapter has built the table for some capabilities
InitMem ==
  /\ \E pc \in AllPrivateCaps :
       /\ private_caps = pc
       /\ memory_types = build_memory_types(pc)
  /\ fits = table_fits(memory_types)
  /\ query = [fn |-> "none"]
  /\ HandleIdle
  /\ RemapIdle
  /\ NativeIdle
  /\ RaceIdle
  /\ InfoIdle

\* bit k of the u64 m
Bit(m, k) == (m \div (2 ^ k)) % 2 = 1

\* m | (1 << k) on u64, for the k < 64 that the length assertion leaves
SetBit(m, k) == IF Bit(m, k) THEN m ELSE m + 2 ^ k

\* a usage test that accepts a type sharing any flag with the request
usage_intersects(buffer_usage, usage) == buffer_usage \cap usage # {}

\* a usage test with receiver and argument exchanged
usage_contained(buffer_usage, usage) == buffer_usage \subseteq usage

\* buffer_usage.contains(usage)
usage_contains(buffer_usage, usage) == usage \subseteq buffer_usage

\* the loop of buffer_memory_type_mask over the first n entries of the table
RECURSIVE buffer_mask_loop(_, _, _)
buffer_mask_loop(table, usage, n) ==
  IF n = 0 THEN 0
  ELSE LET type_mask == buffer_mask_loop(table, usage, n - 1)
           kind == table[n][2]
       IN  IF kind.kind = "Buffer" /\ usage_contains(kind.usage, usage)
             THEN SetBit(type_mask, n - 1)
             ELSE type_mask

\* the loop of image_memory_type_mask over the first n entries of the table
RECURSIVE image_mask_loop(_, _)
image_mask_loop(table, n) ==
  IF n = 0 THEN 0
  ELSE LET type_mask == image_mask_loop(table, n - 1)
       IN  IF table[n][2].kind = "Image"
             THEN SetBit(type_mask, n - 1)
             ELSE type_mask

\* Share::buffer_memory_type_mask: the mask, and error! when it is 0
buffer_memory_type_mask(usage) ==
  /\ fits
  /\ LET type_mask == buffer_mask_loop(memory_types, usage, Len(memory_types))
     IN  query' = [fn |-> "buffer", usage |-> usage, mask |-> type_mask,
                   logged |-> type_mask = 0, panicked |-> FALSE]
  /\ UNCHANGED <<private_caps, memory_types, fits>>

\* Share::image_memory_type_mask: the mask, after assert_ne!(type_mask, 0)
image_memory_type_mask ==
  /\ fits
  /\ LET type_mask == image_mask_loop(memory_types, Len(memory_types))
     IN  query' = [fn |-> "image", usage |-> {}, mask |-> type_mask,
                   logged |-> FALSE, panicked |-> type_mask = 0]
  /\ UNCHANGED <<private_caps, memory_types, fits>>

\* the usages asked for: every combination of five of the flags
QueryUsages == SUBSET {"TRANSFER_DST", "UNIFORM", "INDEX", "VERTEX", "INDIRECT"}

NextMem ==
  \/ \E usage \in QueryUsages :
        buffer_memory_type_mask(usage) /\ HandleStay /\ RemapStay /\ NativeStay /\ RaceStay /\ InfoStay
  \/ image_memory_type_mask /\ HandleStay /\ RemapStay /\ NativeStay /\ RaceStay /\ InfoStay

SpecMem == InitMem /\ [][NextMem]_<<vars, memvars, remapvars, nativevars, racevars, infovars>>

\* the memory-property classes of the table, in the order of the spec
Rank(entry) ==
  CASE entry[2].kind = "Image" -> 5
    [] entry[1].properties = {"CPU_VISIBLE", "CPU_CACHED", "COHERENT"} -> 1
    [] entry[1].properties = {"CPU_VISIBLE", "COHERENT"} -> 2
    [] entry[1].properties = {"CPU_VISIBLE", "CPU_CACHED"} -> 3
    [] entry[1].properties = {"DEVICE_LOCAL"} -> 4
    [] OTHER -> 0

\* indices of the device-local buffer entries
DeviceLocalBuffers ==
  {i \in 1 .. Len(memory_types) :
     /\ memory_types[i][2].kind = "Buffer"
     /\ memory_types[i][1].properties = {"DEVICE_LOCAL"}}

\* C11: for every combination of map, buffer_storage, emulate_map and
\* index_buffer_role_change the table has at most 64 entries, the assertion on
\* its length holds, and every index is a bit position of a 64-bit mask.
C11_TableFits ==
  /\ fits
  /\ Len(memory_types) <= 64
  /\ \A i \in 1 .. Len(memory_types) : i - 1 <= 63

\* the longest table: all host-visible types, every type split
C11_Witness ==
  /\ private_caps.map /\ private_caps.buffer_storage
  /\ ~private_caps.index_buffer_role_change
  /\ Len(memory_types) = 9
  /\ fits

\* C12: in the table, coherent+cached entries come before coherent-only
\* entries, those before cached-only entries, those before device-local buffer
\* entries, and the image entry comes after every buffer entry.
C12_Ordering ==
  /\ \A i \in 1 .. Len(memory_types) : Rank(memory_types[i]) \in 1 .. 5
  /\ \A i, j \in 1 .. Len(memory_types) :
       i < j => Rank(memory_types[i]) <= Rank(memory_types[j])
  /\ \A i, j \in 1 .. Len(memory_types) :
       (memory_types[i][2].kind = "Buffer" /\ memory_types[j][2].kind = "Image")
         => i < j

\* a table that holds every class
C12_Witness ==
  /\ {Rank(memory_types[i]) : i \in 1 .. Len(memory_types)} = 1 .. 5
  /\ ~private_caps.index_buffer_role_change

\* C13: without index_buffer_role_change the table holds exactly two
\* device-local buffer entries, INDEX only and then everything but INDEX; with
\* it, exactly one, with all usages. With all four capabilities false the table
\* is exactly: index-only, everything-but-index, image.
C13_DeviceLocalSplit ==
  /\ IF private_caps.index_buffer_role_change
       THEN \E i \in 1 .. Len(memory_types) :
              /\ DeviceLocalBuffers = {i}
              /\ memory_types[i][2].usage = UsageAll
       ELSE \E i \in 1 .. Len(memory_types) :
              /\ DeviceLocalBuffers = {i, i + 1}
              /\ memory_types[i][2].usage = {"INDEX"}
              /\ memory_types[i + 1][2].usage = UsageAll \ {"INDEX"}
  /\ private_caps = PrivateCaps(FALSE, FALSE, FALSE, FALSE, FALSE)
       => memory_types =
            << <<MemoryType({"DEVICE_LOCAL"}, 0), MemoryUsage_Buffer({"INDEX"})>>,
               <<MemoryType({"DEVICE_LOCAL"}, 0),
                 MemoryUsage_Buffer(UsageAll \ {"INDEX"})>>,
               <<MemoryType({"DEVICE_LOCAL"}, 0), MemoryUsage_Image>> >>

\* the table of the context without any of the four capabilities
C13_Witness ==
  /\ private_caps = PrivateCaps(FALSE, FALSE, FALSE, FALSE, FALSE)
  /\ Len(memory_types) = 3

\* C20: buffer_memory_type_mask(usage) sets bit i exactly when entry i is a
\* buffer type whose usage holds every requested flag, sets no other bit,
\* logs and returns 0 without failing when no entry qualifies;
\* image_memory_type_mask sets bit i exactly when entry i is an image type;
\* the two masks share no bit.
C20_TypeMasks ==
  /\ query.fn = "buffer" =>
       /\ \A i \in 1 .. Len(memory_types) :
            Bit(query.mask, i - 1) <=>
              /\ memory_types[i][2].kind = "Buffer"
              /\ query.usage \subseteq memory_types[i][2].usage
       /\ query.mask < 2 ^ Len(memory_types)
       /\ query.logged <=> query.mask = 0
       /\ ~query.panicked
       /\ \A i \in 1 .. Len(memory_types) :
            ~(Bit(query.mask, i - 1)
              /\ Bit(image_mask_loop(memory_types, Len(memory_types)), i - 1))
  /\ query.fn = "image" =>
       /\ \A i \in 1 .. Len(memory_types) :
            Bit(query.mask, i - 1) <=> memory_types[i][2].kind = "Image"
       /\ query.mask < 2 ^ Len(memory_types)

\* a request no type of a split table can serve: the empty mask, logged
C20_Witness ==
  /\ query.fn = "buffer"
  /\ query.usage = {"INDEX", "VERTEX"}
  /\ query.mask = 0 /\ query.logged
  /\ ~private_caps.index_buffer_role_change

(* ----------------------- descriptor remap table ------------------------ *)
\* map.entry(key).or_insert(default), read
entry_or_insert(map, key, default) ==
  IF key \in DOMAIN map THEN map[key] ELSE default

\* the map after the entry of key was written
entry_set(map, key, value) ==
  [k \in DOMAIN map \cup {key} |-> IF k = key THEN value ELSE map[k]]

None == [some |-> FALSE]
Some(v) == [some |-> TRUE, value |-> v]

get_or_default(map, key) ==
  IF key \in DOMAIN map THEN Some(map[key]) ELSE Some(<< >>)
\* self.bindings.get(&key).map(AsRef::as_ref)
get(map, key) ==
  IF key \in DOMAIN map THEN Some(map[key]) ELSE None

push_overwrite(val, nb) == <<nb>>
\* val.push(nb)
push(val, nb) == Append(val, nb)

spare_next_forgotten(nb) == nb
\* *nb += 1 of insert_missing_binding_into_spare
spare_next(nb) == nb + 1

reserve_result_incremented(nb) == nb
\* *nb - 1, the value reserve_binding returns after its increment
reserve_result(nb) == nb - 1

RECURSIVE total_len(_, _)
\* the number of slots stored in the keys S of map
total_len(map, S) ==
  IF S = {} THEN 0
  ELSE LET k == CHOOSE x \in S : TRUE
       IN Len(map[k]) + total_len(map, S \ {k})

Stored == total_len(bindings, DOMAIN bindings)

\* the next free slot of a kind
Counter(btype) == entry_or_insert(next_binding, btype, 0)

\* the number of slots the table has handed out, all kinds together
Issued == Len(issued["Images"]) + Len(issued["UniformBuffers"])

\* nb was handed out by the table for btype and no key of btype records it
Reserved(btype, nb) ==
  /\ \E i \in 1 .. Len(issued[btype]) : issued[btype][i] = nb
  /\ \A k \in Keys : k[1] = btype =>
       \A i \in 1 .. Len(recorded[k]) : recorded[k][i] # nb

insert_missing_binding_into_spare(btype, set, binding) ==
  LET key == <<btype, set, binding>>
      nb == entry_or_insert(next_binding, btype, 0)
      val == push(entry_or_insert(bindings, key, << >>), nb)
  IN /\ Issued < MaxSlots
     /\ Stored < MaxSlots
     /\ bindings' = entry_set(bindings, key, val)
     /\ next_binding' = entry_set(next_binding, btype, spare_next(nb))
     /\ issued' = [issued EXCEPT ![btype] = Append(@, nb)]
     /\ recorded' = [recorded EXCEPT ![key] = Append(@, nb)]
     /\ fresh' = fresh
     /\ rlast' = [op |-> "insert_missing_binding_into_spare", key |-> key,
                  slot |-> nb, result |-> val]

\* a reserve_binding that counts every kind on the counter of Images
reserve_binding_shared(btype) ==
  LET nb == entry_or_insert(next_binding, "Images", 0) + 1
  IN /\ Issued < MaxSlots
     /\ next_binding' = entry_set(next_binding, "Images", nb)
     /\ issued' = [issued EXCEPT ![btype] = Append(@, reserve_result(nb))]
     /\ rlast' = [op |-> "reserve_binding", btype |-> btype,
                  slot |-> reserve_result(nb)]
     /\ UNCHANGED <<bindings, recorded, fresh>>

\* DescRemapData::reserve_binding
reserve_binding(btype) ==
  LET nb == entry_or_insert(next_binding, btype, 0) + 1
  IN /\ Issued < MaxSlots
     /\ next_binding' = entry_set(next_binding, btype, nb)
     /\ issued' = [issued EXCEPT ![btype] = Append(@, reserve_result(nb))]
     /\ rlast' = [op |-> "reserve_binding", btype |-> btype,
                  slot |-> reserve_result(nb)]
     /\ UNCHANGED <<bindings, recorded, fresh>>

insert_missing_binding(nb, btype, set, binding) ==
  LET key == <<btype, set, binding>>
      val == push(entry_or_insert(bindings, key, << >>), nb)
  IN /\ Stored < MaxSlots
     /\ bindings' = entry_set(bindings, key, val)
     /\ recorded' = [recorded EXCEPT ![key] = Append(@, nb)]
     /\ fresh' = (fresh /\ Reserved(btype, nb))
     /\ rlast' = [op |-> "insert_missing_binding", key |-> key,
                  slot |-> nb, result |-> val]
     /\ UNCHANGED <<next_binding, issued>>

get_binding(btype, set, binding) ==
  LET key == <<btype, set, binding>>
  IN /\ rlast' = [op |-> "get_binding", key |-> key, result |-> get(bindings, key)]
     /\ UNCHANGED <<bindings, next_binding, issued, recorded, fresh>>

\* the slots a caller hands to insert_missing_binding for btype: the slots
\* the table has handed out for it, and the first one it has not
SuppliedSlots(btype) == 0 .. Counter(btype)

InitRemap == HandleIdle /\ MemIdle /\ RemapIdle /\ NativeIdle /\ RaceIdle /\ InfoIdle

NextRemap ==
  \/ \E k \in Keys :
        insert_missing_binding_into_spare(k[1], k[2], k[3])
        /\ HandleStay /\ MemStay /\ NativeStay /\ RaceStay /\ InfoStay
  \/ \E btype \in BindingTypes :
        reserve_binding(btype) /\ HandleStay /\ MemStay /\ NativeStay /\ RaceStay /\ InfoStay
  \/ \E k \in Keys : \E nb \in SuppliedSlots(k[1]) :
        insert_missing_binding(nb, k[1], k[2], k[3])
        /\ HandleStay /\ MemStay /\ NativeStay /\ RaceStay /\ InfoStay
  \/ \E k \in Keys :
        get_binding(k[1], k[2], k[3]) /\ HandleStay /\ MemStay /\ NativeStay /\ RaceStay /\ InfoStay

SpecRemap == InitRemap /\ [][NextRemap]_<<vars, memvars, remapvars, nativevars, racevars, infovars>>

\* the slots seq are 0, 1, 2, ... in this order
InOrder(seq) == \A i \in 1 .. Len(seq) : seq[i] = i - 1

\* C14: over any sequence of calls the slots the table hands out for a kind
\* (by reserve_binding and insert_missing_binding_into_spare) are 0, 1, 2, ...
\* in call order, without gap or repeat, and the kind's counter never decreases
C14_RemapMonotone ==
  [][\A k \in BindingTypes :
       /\ InOrder(issued'[k])
       /\ Counter(k)' >= Counter(k)
       /\ Counter(k)' = Len(issued'[k])]_remapvars

\* three slots handed out for Images, by both issuing calls
C14_Witness ==
  /\ issued["Images"] = <<0, 1, 2>>
  /\ rlast.op = "reserve_binding" /\ rlast.slot = 2
  /\ \E k \in DOMAIN bindings : k[1] = "Images" /\ bindings[k] # << >>

\* no slot of a kind is stored twice, under one key or under two
NoSlotTwice ==
  \A k1 \in DOMAIN bindings, k2 \in DOMAIN bindings :
    \A i \in 1 .. Len(bindings[k1]), j \in 1 .. Len(bindings[k2]) :
      (k1[1] = k2[1] /\ bindings[k1][i] = bindings[k2][j]) => (k1 = k2 /\ i = j)

\* C15 as stated: in every state the three mutators reach, no flat slot of a
\* kind is recorded more than once
C15_NoSlotRecordedTwice == NoSlotTwice

\* C15: as long as every slot a caller handed to insert_missing_binding was
\* one reserve_binding had returned for that kind and no key of the kind
\* recorded yet, no flat slot of a kind is recorded more than once
C15_NoReservedSlotRecordedTwice == fresh => NoSlotTwice

\* a reserved slot recorded by insert_missing_binding next to issued ones
C15_Witness ==
  /\ fresh
  /\ rlast.op = "insert_missing_binding"
  /\ Stored >= 3
  /\ \E k1 \in DOMAIN bindings, k2 \in DOMAIN bindings : k1 # k2 /\ k1[1] = k2[1]

\* C16: get_binding returns the slots the insert calls recorded for the key,
\* in insertion order, and None exactly when no insert was made for the key
\* (whatever reserve_binding did)
C16_GetBinding ==
  rlast.op = "get_binding" =>
    rlast.result = IF recorded[rlast.key] = << >> THEN None
                   ELSE Some(recorded[rlast.key])

\* a key found with two slots while another key of a kind with reserved
\* slots is not found
C16_Witness ==
  /\ rlast.op = "get_binding"
  /\ rlast.result.some /\ Len(rlast.result.value) = 2
  /\ Counter("UniformBuffers") > 0
  /\ <<"UniformBuffers", 0, 0>> \notin DOMAIN bindings

InsertOps == {"insert_missing_binding", "insert_missing_binding_into_spare"}

\* C17: an insert on key K leaves K with its previous slots followed by the
\* one new slot, and every other key as it was
C17_InsertAppends ==
  [][rlast'.op \in InsertOps =>
       /\ entry_or_insert(bindings', rlast'.key, << >>)
            = entry_or_insert(bindings, rlast'.key, << >>) \o <<rlast'.slot>>
       /\ \A k \in Keys \ {rlast'.key} :
            /\ (k \in DOMAIN bindings') = (k \in DOMAIN bindings)
            /\ k \in DOMAIN bindings => bindings'[k] = bindings[k]]_remapvars

\* an insert on a key that had slots, with another key present
C17_Witness ==
  /\ rlast.op \in InsertOps
  /\ Len(rlast.result) >= 2
  /\ \E k \in DOMAIN bindings : k # rlast.key

(* -------------------- buffers and descriptor pools --------------------- *)
\* Range<buffer::Offset>
Range(start, end) == [start |-> start, end |-> end]

\* Buffer::Unbound { size, usage }
Buffer_Unbound(size, usage) ==
  [state |-> "Unbound", size |-> size, usage |-> usage]

\* Buffer::Bound { buffer, range }
Buffer_Bound(raw, range) ==
  [state |-> "Bound", buffer |-> raw, range |-> range]

\* the buffers created, all Unbound
NewBuffers == {Buffer_Unbound(256, {"VERTEX"}), Buffer_Unbound(64, {"UNIFORM"})}

\* the raw buffers and the offsets buffers are bound at
Binds == {[raw |-> 1, offset |-> 0], [raw |-> 2, offset |-> 64]}

as_bound_result_unchecked(buf) ==
  IF buf.state = "Unbound"
  THEN [panic |-> FALSE, buffer |-> 0, range |-> Range(0, buf.size)]
  ELSE [panic |-> FALSE, buffer |-> buf.buffer, range |-> buf.range]
\* the match of as_bound: panic!("Expected bound buffer!") or (*buffer, range.clone())
as_bound_result(buf) ==
  IF buf.state = "Unbound"
  THEN [panic |-> TRUE]
  ELSE [panic |-> FALSE, buffer |-> buf.buffer, range |-> buf.range]

\* Buffer::as_bound(&self)
as_bound ==
  /\ buffer.state # "none"
  /\ nlast' = [op |-> "as_bound", result |-> as_bound_result(buffer)]
  /\ UNCHANGED <<buffer, pool, sets, arcs>>

\* the transition to Bound at memory-bind time
bind_buffer_memory(raw, offset) ==
  /\ buffer.state = "Unbound"
  /\ buffer' = Buffer_Bound(raw, Range(offset, offset + buffer.size))
  /\ nlast' = [op |-> "bind_buffer_memory"]
  /\ UNCHANGED <<pool, sets, arcs>>

\* the layouts sets are allocated with
Layouts ==
  { <<[binding |-> 0, ty |-> "UniformBuffer", count |-> 1]>>,
    <<[binding |-> 0, ty |-> "SampledImage", count |-> 1],
      [binding |-> 1, ty |-> "Sampler", count |-> 1]>> }

\* the resolved binding written to a set
DescSetBinding == [kind |-> "Texture", binding |-> 0, texture |-> 1]

\* one place for the bindings of every set of the pool
SharedArc == CHOOSE a \in ArcIds : \A b \in ArcIds : a <= b

\* the first place no Arc is allocated at
FreeArc == CHOOSE a \in ArcIds : arcs[a].strong = 0 /\ \A b \in ArcIds : arcs[b].strong = 0 => a <= b

\* layout.clone()
clone_layout(layout) == layout

\* Arc::new(Mutex::new(Vec::new()))
Arc_new == [strong |-> 1, value |-> << >>]

\* DescriptorPool::allocate_set
allocate_set(layout) ==
  /\ Len(sets) < MaxSets
  /\ sets' = Append(sets, [layout |-> clone_layout(layout), bindings |-> FreeArc])
  /\ arcs' = [arcs EXCEPT ![FreeArc] = Arc_new]
  /\ nlast' = [op |-> "allocate_set", result |-> "Ok", set |-> Len(sets) + 1,
               layout |-> layout]
  /\ UNCHANGED <<buffer, pool>>

\* #[derive(Clone)] of DescriptorSet
clone_set(i) ==
  /\ Len(sets) < MaxSets
  /\ sets' = Append(sets, [layout |-> clone_layout(sets[i].layout),
                           bindings |-> sets[i].bindings])
  /\ arcs' = [arcs EXCEPT ![sets[i].bindings].strong = @ + 1]
  /\ nlast' = [op |-> "clone", of |-> i, set |-> Len(sets) + 1]
  /\ UNCHANGED <<buffer, pool>>

\* a write of one resolved binding into a set
write_descriptor_set(i) ==
  /\ Len(arcs[sets[i].bindings].value) < MaxBindings
  /\ arcs' = [arcs EXCEPT ![sets[i].bindings].value = Append(@, DescSetBinding)]
  /\ nlast' = [op |-> "write_descriptor_set", set |-> i]
  /\ UNCHANGED <<buffer, pool, sets>>

RECURSIVE without(_, _, _)
\* the values of seq from place i on, those at the places S left out
without(seq, S, i) ==
  IF i > Len(seq) THEN << >>
  ELSE (IF i \in S THEN << >> ELSE <<seq[i]>>) \o without(seq, S, i + 1)

\* the Arc allocations after the handles at the places S of sets were dropped
drop_sets(S) ==
  [a \in ArcIds |->
     LET left == arcs[a].strong - Cardinality({i \in S : sets[i].bindings = a})
     IN IF left = 0 THEN NoArc ELSE [arcs[a] EXCEPT !.strong = left]]

\* DescriptorPool::free_sets: the body is empty, the sets passed in by value
\* are dropped when it returns
free_sets(S) ==
  /\ sets' = without(sets, S, 1)
  /\ arcs' = drop_sets(S)
  /\ nlast' = [op |-> "free_sets", freed |-> Cardinality(S)]
  /\ UNCHANGED <<buffer, pool>>

reset_bindings_cleared(allocated) ==
  [a \in DOMAIN allocated |-> [allocated[a] EXCEPT !.value = << >>]]
\* what the body of reset does to the bindings of the sets: nothing
reset_bindings(allocated) == allocated

\* DescriptorPool::reset
reset ==
  /\ arcs' = reset_bindings(arcs)
  /\ nlast' = [op |-> "reset"]
  /\ UNCHANGED <<buffer, pool, sets>>

\* the state after a buffer and a descriptor pool were created
InitNative ==
  /\ buffer \in NewBuffers
  /\ pool = DescriptorPool
  /\ sets = << >>
  /\ arcs = [a \in ArcIds |-> NoArc]
  /\ nlast = [op |-> "none"]
  /\ HandleIdle /\ MemIdle /\ RemapIdle /\ RaceIdle /\ InfoIdle

NextNative ==
  \/ as_bound /\ HandleStay /\ MemStay /\ RemapStay /\ RaceStay /\ InfoStay
  \/ \E b \in Binds :
        bind_buffer_memory(b.raw, b.offset) /\ HandleStay /\ MemStay /\ RemapStay /\ RaceStay /\ InfoStay
  \/ \E layout \in Layouts :
        allocate_set(layout) /\ HandleStay /\ MemStay /\ RemapStay /\ RaceStay /\ InfoStay
  \/ \E i \in 1 .. Len(sets) : clone_set(i) /\ HandleStay /\ MemStay /\ RemapStay /\ RaceStay /\ InfoStay
  \/ \E i \in 1 .. Len(sets) :
        write_descriptor_set(i) /\ HandleStay /\ MemStay /\ RemapStay /\ RaceStay /\ InfoStay
  \/ \E S \in SUBSET (1 .. Len(sets)) :
        free_sets(S) /\ HandleStay /\ MemStay /\ RemapStay /\ RaceStay /\ InfoStay
  \/ reset /\ HandleStay /\ MemStay /\ RemapStay /\ RaceStay /\ InfoStay

SpecNative == InitNative /\ [][NextNative]_<<vars, memvars, remapvars, nativevars, racevars, infovars>>

\* C18: as_bound fails fatally on an Unbound buffer, returns exactly the
\* handle and the range of a Bound one, and leaves the buffer as it was
C18_AsBound ==
  [][nlast'.op = "as_bound" =>
       /\ buffer' = buffer
       /\ buffer.state = "Unbound" => nlast'.result.panic
       /\ buffer.state = "Bound" =>
            /\ ~nlast'.result.panic
            /\ nlast'.result.buffer = buffer.buffer
            /\ nlast'.result.range = buffer.range]_nativevars

\* as_bound has returned handle and range of a buffer bound at an offset
C18_Witness ==
  /\ nlast.op = "as_bound"
  /\ buffer = Buffer_Bound(2, Range(64, 320))
  /\ nlast.result = [panic |-> FALSE, buffer |-> 2, range |-> Range(64, 320)]

\* C19: allocate_set returns Ok with a copy of the layout and a new, empty
\* binding list and makes no context call; free_sets and reset change neither
\* the pool, nor the context, nor the bindings of any descriptor set alive,
\* and reset leaves every set alive
C19_PoolContract ==
  [][/\ nlast'.op = "allocate_set" =>
          /\ nlast'.result = "Ok"
          /\ context' = context /\ pool' = pool
          /\ Len(sets') = Len(sets) + 1
          /\ sets'[Len(sets')].layout = nlast'.layout
          /\ arcs[sets'[Len(sets')].bindings].strong = 0
          /\ arcs'[sets'[Len(sets')].bindings] = [strong |-> 1, value |-> << >>]
          /\ \A a \in ArcIds : arcs[a].strong > 0 => arcs'[a] = arcs[a]
     /\ nlast'.op \in {"free_sets", "reset"} =>
          /\ context' = context /\ pool' = pool
          /\ \A a \in ArcIds : arcs'[a].strong > 0 => arcs'[a].value = arcs[a].value
     /\ nlast'.op = "reset" => sets' = sets /\ arcs' = arcs]_<<nativevars, context>>

\* reset has run on a pool with two sets alive, one with bindings written
C19_Witness ==
  /\ nlast.op = "reset"
  /\ Len(sets) = 2
  /\ sets[1].bindings # sets[2].bindings
  /\ \E a \in ArcIds : arcs[a].strong > 0 /\ Len(arcs[a].value) = 2

(* ------------- memory-type table: image type, length, masks ------------ *)
\* the places of the table that hold an image memory type
ImageTypes == {i \in 1 .. Len(memory_types) : memory_types[i][2].kind = "Image"}

\* C21: the table holds exactly one image memory type, device-local and in
\* the last place, and image_memory_type_mask returns exactly that one bit
\* without failing its non-zero assertion
C21_OneImageType ==
  /\ ImageTypes = {Len(memory_types)}
  /\ memory_types[Len(memory_types)][1].properties = {"DEVICE_LOCAL"}
  /\ query.fn = "image" =>
       /\ query.mask = 2 ^ (Len(memory_types) - 1)
       /\ ~query.panicked

\* the image mask of the longest table
C21_Witness ==
  /\ query.fn = "image"
  /\ Len(memory_types) = 9
  /\ query.mask = 256

\* the number of host-visible memory-property classes of the capabilities
HostClasses(pc) ==
  (IF pc.map /\ pc.buffer_storage THEN 2 ELSE 0)
    + (IF pc.map \/ pc.emulate_map THEN 1 ELSE 0)

\* the number of entries add_memory_type pushes per class
SplitFactor(pc) == IF pc.index_buffer_role_change THEN 1 ELSE 2

\* some entry of the table has exactly the properties props
HasClass(props) ==
  \E i \in 1 .. Len(memory_types) :
    memory_types[i][2].kind = "Buffer" /\ memory_types[i][1].properties = props

\* C26: the table has s * (h + 1) + 1 entries; the coherent+cached and the
\* coherent-only types are present exactly when map and buffer_storage hold,
\* the cached-only type exactly when map or emulate_map holds
C26_TableLength ==
  /\ Len(memory_types) = SplitFactor(private_caps) * (HostClasses(private_caps) + 1) + 1
  /\ HasClass({"CPU_VISIBLE", "CPU_CACHED", "COHERENT"})
       <=> (private_caps.map /\ private_caps.buffer_storage)
  /\ HasClass({"CPU_VISIBLE", "COHERENT"})
       <=> (private_caps.map /\ private_caps.buffer_storage)
  /\ HasClass({"CPU_VISIBLE", "CPU_CACHED"})
       <=> (private_caps.map \/ private_caps.emulate_map)

\* a split table with the cached-only host-visible class alone
C26_Witness ==
  /\ ~private_caps.index_buffer_role_change
  /\ private_caps.emulate_map /\ ~private_caps.map
  /\ Len(memory_types) = 5

RECURSIVE PopCount(_, _)
\* the number of bits set among the lowest n bits of m
PopCount(m, n) ==
  IF n = 0 THEN 0
  ELSE (IF Bit(m, n - 1) THEN 1 ELSE 0) + PopCount(m, n - 1)

\* C27: for a non-empty usage the buffer mask is non-zero exactly when
\* index_buffer_role_change holds, or the usage is INDEX alone, or it leaves
\* INDEX out; a non-zero mask has one bit per memory-property class
C27_BufferMaskNonZero ==
  (query.fn = "buffer" /\ query.usage # {}) =>
    /\ query.mask # 0 <=>
         \/ private_caps.index_buffer_role_change
         \/ query.usage = {"INDEX"}
         \/ "INDEX" \notin query.usage
    /\ query.mask # 0 =>
         PopCount(query.mask, Len(memory_types)) = HostClasses(private_caps) + 1

\* INDEX alone asked of a split table with every class
C27_Witness ==
  /\ query.fn = "buffer"
  /\ query.usage = {"INDEX"}
  /\ ~private_caps.index_buffer_role_change
  /\ private_caps.map /\ private_caps.buffer_storage
  /\ PopCount(query.mask, Len(memory_types)) = 4

(* ------------------- remap table: separate namespaces ------------------ *)
IssuingOps == {"reserve_binding", "insert_missing_binding_into_spare"}

\* the kind the last call was made for
KindOf(call) == IF call.op = "reserve_binding" THEN call.btype ELSE call.key[1]

\* C25: reserve_binding or insert_missing_binding_into_spare for one kind
\* leaves the counter and every recorded sequence of the other kind as they
\* were, and the first slot a kind issues is 0 whatever the other kind issued
C25_SeparateNamespaces ==
  [][rlast'.op \in IssuingOps =>
       /\ \A o \in BindingTypes \ {KindOf(rlast')} :
            /\ Counter(o)' = Counter(o)
            /\ \A k \in Keys : k[1] = o =>
                 /\ (k \in DOMAIN bindings') = (k \in DOMAIN bindings)
                 /\ k \in DOMAIN bindings => bindings'[k] = bindings[k]
       /\ Counter(KindOf(rlast')) = 0 => rlast'.slot = 0]_remapvars

\* the first slot of UniformBuffers issued after two slots of Images
C25_Witness ==
  /\ rlast.op = "reserve_binding"
  /\ rlast.btype = "UniformBuffers" /\ rlast.slot = 0
  /\ Counter("Images") = 2
  /\ \E k \in DOMAIN bindings : k[1] = "Images"

(* ------------------ descriptor sets: sharing of bindings --------------- *)
\* the binding list seen through the set at place i
View(allocated, handles_, i) == allocated[handles_[i].bindings].value

\* C24: a set returned by allocate_set has a binding list no other set has,
\* a clone has the binding list of its original, no call makes two sets share
\* or stop sharing a list, and a write through one set is visible through
\* exactly the sets that share its list
C24_SetsIndependent ==
  [][/\ nlast'.op = "allocate_set" =>
          \A j \in 1 .. Len(sets) : sets'[Len(sets')].bindings # sets'[j].bindings
     /\ nlast'.op = "clone" =>
          sets'[nlast'.set].bindings = sets'[nlast'.of].bindings
     /\ nlast'.op # "free_sets" =>
          \A i \in 1 .. Len(sets), j \in 1 .. Len(sets) :
            (sets'[i].bindings = sets'[j].bindings)
              <=> (sets[i].bindings = sets[j].bindings)
     /\ nlast'.op = "write_descriptor_set" =>
          \A j \in 1 .. Len(sets) :
            View(arcs', sets', j) =
              IF sets[j].bindings = sets[nlast'.set].bindings
                THEN Append(View(arcs, sets, nlast'.set), DescSetBinding)
                ELSE View(arcs, sets, j)]_nativevars

\* a write through one of two sets allocated with the same layout, seen
\* through that one only
C24_Witness ==
  /\ nlast.op = "write_descriptor_set" /\ nlast.set = 2
  /\ Len(sets) = 2
  /\ sets[1].layout = sets[2].layout
  /\ View(arcs, sets, 1) = << >>
  /\ View(arcs, sets, 2) = <<DescSetBinding>>

(* ------------- open, statement by statement, on several threads -------- *)
\* no open call is in progress
NoCall == \A t \in Threads : in_open[t].at = "idle"

\* open up to its test of the flag: if self.0.open.get() { return Err(..) }
open_enter(h, t, q) ==
  /\ h \in Starcs
  /\ in_open[t].at = "idle"
  /\ IF ~deref_ok(h, t)
       THEN /\ last' = Outcome("open", t, "panic", "any")
            /\ UNCHANGED racevars
     ELSE IF already_open
       THEN /\ last' = Outcome("open", t, "TooManyObjects", "any")
            /\ UNCHANGED racevars
     ELSE /\ NumHandles + 1 + Len(q.families) <= MaxHandles
          /\ last' = Outcome("open", t, "running", "any")
          /\ in_open' = [in_open EXCEPT ![t] = [at |-> "set", h |-> h, q |-> q]]
          /\ observed' = observed + 1
  /\ UNCHANGED <<debug_assertions, share, place, owner, strong, weak, handles,
                 context, gpus>>

\* the next statement of open: self.0.open.set(true)
open_set(t) ==
  /\ in_open[t].at = "set"
  /\ IF ~deref_ok(in_open[t].h, t)
       THEN /\ last' = Outcome("open", t, "panic", "any")
            /\ in_open' = [in_open EXCEPT ![t] = [at |-> "idle"]]
            /\ UNCHANGED share
       ELSE /\ last' = Outcome("open", t, "running", "any")
            /\ in_open' = [in_open EXCEPT ![t].at = "rest"]
            /\ share' = set_open
  /\ UNCHANGED <<debug_assertions, place, owner, strong, weak, handles,
                 context, gpus, observed>>

\* the rest of open: the feature test, the permanent states, check, Ok(Gpu)
open_rest(t) ==
  /\ in_open[t].at = "rest"
  /\ in_open' = [in_open EXCEPT ![t] = [at |-> "idle"]]
  /\ LET q == in_open[t].q
         h == in_open[t].h
     IN IF ~(q.features \subseteq share.features)
          THEN /\ last' = Outcome("open", t, "MissingFeature", "any")
               /\ UNCHANGED <<handles, strong, context, gpus>>
        ELSE IF check(q.gl_error) = "Err"
                  \/ \E i \in 1 .. Len(q.families) : q.families[i] # 1
          THEN /\ context' = context \o open_calls
               /\ last' = Outcome("open", t, "panic", "any")
               /\ UNCHANGED <<handles, strong, gpus>>
        ELSE /\ context' = context \o open_calls
             /\ handles' = handles (+) GpuHandles(h.thread, q.families)
             /\ strong' = strong + 1 + Len(q.families)
             /\ gpus' = gpus + 1
             /\ last' = Outcome("open", t, "Ok", "any")
  /\ UNCHANGED <<debug_assertions, share, place, owner, weak, observed>>

NextRace ==
  \/ \E h \in DOMAIN handles, t \in Threads, q \in OpenRequests :
        open_enter(h, t, q) /\ MemStay /\ RemapStay /\ NativeStay /\ InfoStay
  \/ \E t \in Threads : open_set(t) /\ MemStay /\ RemapStay /\ NativeStay /\ InfoStay
  \/ \E t \in Threads : open_rest(t) /\ MemStay /\ RemapStay /\ NativeStay /\ InfoStay
  \/ \E h \in DOMAIN handles, t \in Threads :
        NoCall /\ clone(h, t) /\ OthersStay

SpecRace == Init /\ [][NextRace]_<<vars, memvars, remapvars, nativevars, racevars, infovars>>

\* C23: for any interleaving of open calls from several threads, only calls
\* on the owning thread get past the dereference; a call on another thread
\* fails fatally and leaves the flag as it was; at most one call reads
\* open == false and at most one open succeeds
C23_OpenRaceFree ==
  [][/\ \A t \in Threads : in_open'[t].at # "idle" => t = owner
     /\ (last'.op = "open" /\ last'.t # owner) =>
          /\ last'.res = "panic"
          /\ share'.open = share.open
     /\ observed' <= 1
     /\ gpus' <= 1]_<<vars, racevars>>

\* a call on a foreign thread has failed after the owner's open succeeded
\* through a clone
C23_Witness ==
  /\ last.op = "open" /\ last.t # owner /\ last.res = "panic"
  /\ observed = 1 /\ gpus = 1
  /\ \E h \in Starcs : h.via = "clone"

(* ------------------- adapter info: device type, vendor ----------------- *)
UpperCase == "ABCDEFGHIJKLMNOPQRSTUVWXYZ"
LowerCase == "abcdefghijklmnopqrstuvwxyz"

\* the lower-case form of the one-character string c
lower_char(c) ==
  IF \E i \in 1 .. Len(UpperCase) : SubSeq(UpperCase, i, i) = c
    THEN LET i == CHOOSE j \in 1 .. Len(UpperCase) : SubSeq(UpperCase, j, j) = c
         IN  SubSeq(LowerCase, i, i)
    ELSE c

RECURSIVE to_lowercase(_)
\* str::to_lowercase on the ASCII strings of this model
to_lowercase(str) ==
  IF Len(str) = 0 THEN ""
  ELSE lower_char(SubSeq(str, 1, 1)) \o to_lowercase(SubSeq(str, 2, Len(str)))

\* str::contains(pattern)
contains(str, pattern) ==
  \E i \in 1 .. Len(str) - Len(pattern) + 1 :
    SubSeq(str, i, i + Len(pattern) - 1) = pattern

strings_that_imply_integrated ==
  << " xpress", "radeon hd 4200", "radeon hd 4250", "radeon hd 4290",
     "radeon hd 4270", "radeon hd 4225", "radeon hd 3100", "radeon hd 3200",
     "radeon hd 3000", "radeon hd 3300", "radeon(tm) r4 graphics",
     "radeon(tm) r5 graphics", "radeon(tm) r6 graphics",
     "radeon(tm) r7 graphics", "radeon r7 graphics", "nforce", "tegra",
     "shield", "igp", "mali", "intel" >>

strings_that_imply_cpu == << "mesa offscreen" >>

\* list.into_iter().any(|&s| renderer_lower.contains(s))
any_contained(list, renderer_lower) ==
  \E i \in 1 .. Len(list) : contains(renderer_lower, list[i])

\* a classification that tests for a software renderer first
inferred_device_type_cpu_first(vendor_lower, renderer_lower) ==
  IF any_contained(strings_that_imply_cpu, renderer_lower) THEN "Cpu"
  ELSE IF \/ contains(vendor_lower, "qualcomm")
          \/ contains(vendor_lower, "intel")
          \/ any_contained(strings_that_imply_integrated, renderer_lower)
    THEN "IntegratedGpu"
  ELSE "DiscreteGpu"

\* let inferred_device_type = if .. else if .. else ..
inferred_device_type(vendor_lower, renderer_lower) ==
  IF \/ contains(vendor_lower, "qualcomm")
     \/ contains(vendor_lower, "intel")
     \/ any_contained(strings_that_imply_integrated, renderer_lower)
    THEN "IntegratedGpu"
  ELSE IF any_contained(strings_that_imply_cpu, renderer_lower) THEN "Cpu"
  ELSE "DiscreteGpu"

\* let vendor_id = if .. (0x1002, 0x1010, 0x10DE, 0x13B5, 0x5143, 0x8086)
vendor_id(vendor_lower) ==
  IF contains(vendor_lower, "amd") THEN 4098
  ELSE IF contains(vendor_lower, "imgtec") THEN 4112
  ELSE IF contains(vendor_lower, "nvidia") THEN 4318
  ELSE IF contains(vendor_lower, "arm") THEN 5045
  ELSE IF contains(vendor_lower, "qualcomm") THEN 20803
  ELSE IF contains(vendor_lower, "intel") THEN 32902
  ELSE 0

\* the vendor strings a context reports, each with its lower-case form
Vendors ==
  { [text |-> "NVIDIA Corporation", lower |-> "nvidia corporation"],
    [text |-> "Intel", lower |-> "intel"],
    [text |-> "INTEL Inc.", lower |-> "intel inc."],
    [text |-> "Qualcomm", lower |-> "qualcomm"],
    [text |-> "ATI Technologies Inc.", lower |-> "ati technologies inc."],
    [text |-> "AMD", lower |-> "amd"],
    [text |-> "ARM", lower |-> "arm"],
    [text |-> "Imgtec", lower |-> "imgtec"],
    [text |-> "X.Org", lower |-> "x.org"],
    [text |-> "", lower |-> ""] }

\* the renderer strings a context reports, each with its lower-case form
Renderers ==
  { [text |-> "Intel(R) UHD Graphics", lower |-> "intel(r) uhd graphics"],
    [text |-> "GeForce RTX 2080/PCIe/SSE2", lower |-> "geforce rtx 2080/pcie/sse2"],
    [text |-> "Mesa Offscreen", lower |-> "mesa offscreen"],
    [text |-> "Mesa OffScreen Intel", lower |-> "mesa offscreen intel"],
    [text |-> "llvmpipe", lower |-> "llvmpipe"],
    [text |-> "AMD Radeon(TM) R7 Graphics", lower |-> "amd radeon(tm) r7 graphics"],
    [text |-> "Radeon HD 4200", lower |-> "radeon hd 4200"],
    [text |-> "Radeon X1200 Xpress", lower |-> "radeon x1200 xpress"],
    [text |-> "PCI Express", lower |-> "pci express"],
    [text |-> "Mali-G72", lower |-> "mali-g72"],
    [text |-> "NVIDIA Tegra X1", lower |-> "nvidia tegra x1"],
    [text |-> "Adreno (TM) 630", lower |-> "adreno (tm) 630"],
    [text |-> "", lower |-> ""] }

\* the part of new_adapter that builds the hal::AdapterInfo
new_adapter_info ==
  /\ ~adapter_info.built
  /\ LET vendor_lower == to_lowercase(platform_name.vendor)
         renderer_lower == to_lowercase(platform_name.renderer)
     IN adapter_info' =
          [name |-> platform_name.renderer,
           built |-> TRUE,
           vendor |-> vendor_id(vendor_lower),
           device |-> 0,
           device_type |-> inferred_device_type(vendor_lower, renderer_lower)]
  /\ UNCHANGED platform_name

\* the state after info::query_all has read the strings of some context
InitInfo ==
  /\ \E v \in Vendors, r \in Renderers :
       platform_name = [vendor |-> v.text, renderer |-> r.text]
  /\ adapter_info = [name |-> "", built |-> FALSE]
  /\ HandleIdle /\ MemIdle /\ RemapIdle /\ NativeIdle /\ RaceIdle

NextInfo ==
  new_adapter_info /\ HandleStay /\ MemStay /\ RemapStay /\ NativeStay /\ RaceStay

SpecInfo == InitInfo /\ [][NextInfo]_<<vars, memvars, remapvars, nativevars, racevars, infovars>>

\* the lower-case form listed for the string text of the set strings
LowerOf(strings, text) == (CHOOSE x \in strings : x.text = text).lower

\* C22: the device type is integrated if the lower-cased vendor contains
\* "qualcomm" or "intel" or the lower-cased renderer contains a listed
\* integrated fragment; otherwise cpu if the renderer contains
\* "mesa offscreen"; otherwise discrete. "Intel(R) UHD Graphics" is
\* integrated, "GeForce RTX" discrete, and integrated wins over cpu.
C22_DeviceClassification ==
  adapter_info.built =>
    LET vendor_lower == LowerOf(Vendors, platform_name.vendor)
        renderer_lower == LowerOf(Renderers, platform_name.renderer)
        integrated ==
          \/ contains(vendor_lower, "qualcomm")
          \/ contains(vendor_lower, "intel")
          \/ \E i \in 1 .. Len(strings_that_imply_integrated) :
               contains(renderer_lower, strings_that_imply_integrated[i])
        cpu == contains(renderer_lower, "mesa offscreen")
    IN /\ adapter_info.device_type = "IntegratedGpu" <=> integrated
       /\ adapter_info.device_type = "Cpu" <=> (~integrated /\ cpu)
       /\ adapter_info.device_type = "DiscreteGpu" <=> (~integrated /\ ~cpu)
       /\ platform_name.renderer = "Intel(R) UHD Graphics"
            => adapter_info.device_type = "IntegratedGpu"
       /\ platform_name.renderer = "Mesa OffScreen Intel"
            => adapter_info.device_type = "IntegratedGpu"
       /\ (platform_name.renderer = "Mesa Offscreen"
             /\ platform_name.vendor = "X.Org")
            => adapter_info.device_type = "Cpu"
       /\ (platform_name.renderer = "GeForce RTX 2080/PCIe/SSE2"
             /\ platform_name.vendor = "NVIDIA Corporation")
            => adapter_info.device_type = "DiscreteGpu"
       /\ (platform_name.renderer = "PCI Express"
             /\ platform_name.vendor = "AMD")
            => adapter_info.device_type = "DiscreteGpu"

\* an Intel context with the software renderer: integrated, not cpu
C22_Witness ==
  /\ adapter_info.built
  /\ platform_name = [vendor |-> "INTEL Inc.", renderer |-> "Mesa Offscreen"]
  /\ adapter_info.device_type = "IntegratedGpu"
====
